---- MODULE Spec2Model ----
(***************************************************************************)
(* Model of the relay server of sn-events-translator (src/src/server.ts)   *)
(* and of the text pipeline of TranslationService.translateText            *)
(* (src/src/translation-service.ts, the latest snapshot, lines 88-265).    *)
(*                                                                         *)
(* Representation.                                                         *)
(*  - A WebSocket object is a number of Conns; a number is used once, as a *)
(*    WebSocket object is never reused after it closed.                    *)
(*  - A text is a sequence of tokens.  A token is a whole word or one      *)
(*    whitespace character; words within a fragment are separated by a     *)
(*    space token and the session joins fragments with a space, so two     *)
(*    words are never adjacent and the \b...\b patterns of translateText   *)
(*    match a word exactly when the token is that word.                    *)
(*  - A session identifier `session-${Date.now()}` is a positive number    *)
(*    drawn from a counter: two sessions are at least 3000 ms apart, so    *)
(*    their identifiers differ.  null is NoSession.                        *)
(*  - A timer holds the milliseconds that are left, 0 meaning due.  Time   *)
(*    passes from one expiry to the next; a due timer's callback runs      *)
(*    before any other input is taken.                                     *)
(*  - One action is one macrotask of the Node.js event loop: a handler up  *)
(*    to its first suspension at the OpenAI request, a timer callback up   *)
(*    to the same point, or the continuation after the request settled.    *)
(***************************************************************************)
EXTENDS Integers, Sequences, FiniteSets, TLC

\* ---------------------------------------------------------------- bounds
MaxConns == 3
MaxFragments == 2
MaxDetectLen == 2
MaxTranscripts == 2
MaxResults == 3
MaxReceived == 52
MaxInterimEvents == 1

\* ------------------------------------------------------ program constants
SESSION_TIMEOUT_MS == 3000
HISTORY_LIMIT == 50
INTERIM_DELAY_MS == 500

Conns == 1..MaxConns
NoConn == 0
NoSession == 0
NoTimer == -1
InterimFallbackId == -1
FinalFallbackId == -2

\* tokens
Space == " "
WordEn == "hello"
WordKo == "annyeong"
WordKo2 == "haseyo"
WordKo3 == "annyeonghaseyo"
Hangul == { WordKo, WordKo2, WordKo3 }
Filler == "thanks"
Pipe == "|"
Digits == "123"
Punct == "!@#"
\* "안녕" in Unicode normalization form D: conjoining jamo, U+1100 to U+11FF
WordKoNFD == "annyeong (NFD)"

FragTexts == { <<>>, <<Space>>, <<WordEn>>, <<Filler>> }
PUBLISHER_PASSWORD == "status2024"
Passwords == { PUBLISHER_PASSWORD, "wrong" }

\* ---------------------------------------------------------- pure helpers
Min(a, b) == IF a < b THEN a ELSE b

RECURSIVE SortedSeq(_)
SortedSeq(S) ==
  IF S = {} THEN <<>>
  ELSE LET m == CHOOSE x \in S : \A y \in S : x <= y
       IN <<m>> \o SortedSeq(S \ {m})

\* text.replace(/\b(thank you|thanks|...)\b/gi, '')
StripFillers(text) == SelectSeq(text, LAMBDA tok : tok # Filler)

\* text.replace(/\s+/g, ' ')
RECURSIVE CollapseSpaces(_)
CollapseSpaces(text) ==
  IF Len(text) <= 1 THEN text
  ELSE IF Head(text) = Space /\ text[2] = Space
       THEN CollapseSpaces(Tail(text))
       ELSE <<Head(text)>> \o CollapseSpaces(Tail(text))

\* text.trim()
RECURSIVE TrimLeft(_)
TrimLeft(text) ==
  IF text # <<>> /\ Head(text) = Space THEN TrimLeft(Tail(text)) ELSE text

RECURSIVE TrimRight(_)
TrimRight(text) ==
  IF text # <<>> /\ text[Len(text)] = Space
  THEN TrimRight(SubSeq(text, 1, Len(text) - 1))
  ELSE text

Trim(text) == TrimRight(TrimLeft(text))

\* correctedText of translateText
CorrectedText(text) == Trim(CollapseSpaces(StripFillers(text)))

\* what the character class [ㄱ-ㅎ|ㅏ-ㅣ|가-힣] matches: compatibility jamo U+3131 to
\* U+3163, the syllables U+AC00 to U+D7A3, and the '|' written between the ranges
KoreanRegexMatches(tok) == tok \in Hangul \cup {Pipe}

\* detectLanguage: koreanRegex.test(text)
DetectLanguage(text) ==
  IF \E i \in 1..Len(text) : KoreanRegexMatches(text[i]) THEN "ko" ELSE "en"

TargetLanguage(src) == IF src = "ko" THEN "en" ELSE "ko"

\* ------------------------------------------------------------------ state
VARIABLES
  connections,                \* Map<WebSocket, AuthenticatedConnection>: registered ws -> record
  readyState,                 \* ws.readyState of every WebSocket object
  publisher,                  \* let publisher: WebSocket | null
  lastInterimTranslation,     \* let lastInterimTranslation: string
  interimTranslationTimeout,  \* the pending debounce timer and the text its closure captured
  currentSessionText,         \* let currentSessionText: string
  currentSessionId,           \* let currentSessionId: string | null
  sessionTimeout,             \* milliseconds left on the idle timer, NoTimer when none is pending
  inflight,                   \* OpenAI requests issued and not yet settled
  nextWs,                     \* the next WebSocket object the server will accept
  nextSession,                \* Date.now() at the next session start, as a counter
  \* what the last step did (rewritten by every step)
  sent,                       \* the messages written to sockets, in order
  lastEvent,                  \* the input it handled
  issued,                     \* the OpenAI request it issued, NoRequest when none
  emitted,                    \* the translation event it handed to broadcastToSubscribers
  \* history
  lastAuth,                   \* the connection that most recently authenticated successfully
  finalized,                  \* session ids a final event has been broadcast with
  broadcastFinal,             \* history: the fragment number of the final event broadcast last
  cleared,                    \* session ids the idle timer has cleared
  superseded,                 \* accepted fragments followed by an interim one in < 500 ms
  lastAccepted,               \* the last fragment that passed the publisher check, its
                              \* isFinal field as sent, and whether a debounce timer was
                              \* pending when it arrived
  nFinals,                    \* final fragments accepted so far
  nFragments,                 \* fragment messages handled so far
  sinceFragment,              \* milliseconds since the last accepted fragment, capped
  elapsed,                    \* milliseconds that Elapse steps have let pass
  liveTimers,                 \* the timers Node.js holds, per kind: set, not cleared, not fired
  called,                     \* accepted fragments translateText has been called for
  detected,                   \* a text and what detectLanguage returned for it
  apps,                       \* the TranslatorApp of the browser behind every WebSocket
  appSent                     \* the messages the last step of an app wrote to its socket

registryVars == <<connections, readyState, publisher, nextWs>>
callVars == <<liveTimers, called>>
clientVars == <<apps, appSent>>
sessionVars == <<lastInterimTranslation, interimTranslationTimeout, currentSessionText,
                 currentSessionId, sessionTimeout>>
fragmentVars == <<superseded, lastAccepted, nFinals, nFragments, sinceFragment>>
serverVarsButSent ==
  <<registryVars, sessionVars, fragmentVars, callVars, inflight, nextSession, lastEvent,
    issued, emitted, lastAuth, finalized, broadcastFinal, cleared, elapsed>>
serverVars == <<registryVars, sessionVars, fragmentVars, callVars, inflight, nextSession, sent,
                lastEvent, issued, emitted, lastAuth, finalized, broadcastFinal, cleared, elapsed>>
vars == <<connections, readyState, publisher, lastInterimTranslation,
          interimTranslationTimeout, currentSessionText, currentSessionId, sessionTimeout,
          inflight, nextWs, nextSession, sent, lastEvent, issued, emitted, lastAuth,
          finalized, broadcastFinal, cleared, superseded, lastAccepted, nFinals, nFragments,
          sinceFragment,
          elapsed, detected, clientVars, callVars>>

NoInterim == [left |-> NoTimer, text |-> <<>>, frag |-> 0]
NoTimers == [interim |-> 0, idle |-> 0]
NoDetection == [text |-> <<>>, language |-> "none"]
NoRequest ==
  [path |-> "none", ws |-> NoConn, raw |-> <<>>, text |-> <<>>, frag |-> 0,
   sid |-> NoSession, finals |-> 0]
NoEmitted == [id |-> NoSession, isFinal |-> FALSE, req |-> NoRequest]
NoTranslation ==
  [id |-> NoSession, originalText |-> <<>>, translatedText |-> "", sourceLanguage |-> "",
   targetLanguage |-> "", isFinal |-> FALSE]

Msg(to, type, data, count, translation) ==
  [to |-> to, type |-> type, data |-> data, count |-> count, translation |-> translation]

Event(kind, from, text, isFinal, password) ==
  [kind |-> kind, from |-> from, text |-> text, isFinal |-> isFinal, password |-> password,
   field |-> "none"]

\* mutant: a new connection is registered with the publisher role
RegisterAsPublisher(conns, ws) ==
  [c \in (DOMAIN conns) \cup {ws} |-> IF c = ws THEN [isPublisher |-> TRUE] ELSE conns[c]]

\* connections.set(ws, {ws, isPublisher: false, authenticatedAt})
Register(conns, ws) ==
  [c \in (DOMAIN conns) \cup {ws} |-> IF c = ws THEN [isPublisher |-> FALSE] ELSE conns[c]]

\* connections.delete(ws)
Unregister(conns, ws) == [c \in (DOMAIN conns) \ {ws} |-> conns[c]]

\* mutant: the readyState of a connection is not looked at
AllRegistered(conns, rs) == SortedSeq(DOMAIN conns)

\* connections.forEach(c => { if (c.ws.readyState === OPEN) c.ws.send(message) }),
\* in the Map's insertion order
BroadcastTargets(conns, rs) == SortedSeq({c \in DOMAIN conns : rs[c] = "OPEN"})

BroadcastToSubscribers(conns, rs, type, count, translation) ==
  LET targets == BroadcastTargets(conns, rs)
  IN [i \in 1..Len(targets) |-> Msg(targets[i], type, "", count, translation)]

\* mutant: the count leaves the publisher out
BroadcastSubscribersOnlyCount(conns, rs) ==
  BroadcastToSubscribers(conns, rs, "subscriber_count",
                         Cardinality({c \in DOMAIN conns : ~conns[c].isPublisher}),
                         NoTranslation)

BroadcastSubscriberCount(conns, rs) ==
  BroadcastToSubscribers(conns, rs, "subscriber_count", Cardinality(DOMAIN conns), NoTranslation)

\* ws.send(JSON.stringify({type, data})) to one socket
SendTo(ws, rs, type, data) ==
  IF rs[ws] = "OPEN" THEN <<Msg(ws, type, data, 0, NoTranslation)>> ELSE <<>>

\* An expired timer's callback runs before the event loop takes the next input.
NoTimerDue == sessionTimeout # 0 /\ interimTranslationTimeout.left # 0

InitServer ==
  /\ connections = <<>>
  /\ readyState = [c \in Conns |-> "NONE"]
  /\ publisher = NoConn
  /\ lastInterimTranslation = <<>>
  /\ interimTranslationTimeout = NoInterim
  /\ currentSessionText = <<>>
  /\ currentSessionId = NoSession
  /\ sessionTimeout = NoTimer
  /\ inflight = {}
  /\ nextWs = 1
  /\ nextSession = 1
  /\ sent = <<>>
  /\ lastEvent = Event("init", NoConn, <<>>, FALSE, "")
  /\ issued = NoRequest
  /\ emitted = NoEmitted
  /\ lastAuth = NoConn
  /\ finalized = {}
  /\ broadcastFinal = 0
  /\ cleared = {}
  /\ superseded = {}
  /\ lastAccepted = [frag |-> 0, acc |-> <<>>, isFinal |-> FALSE, field |-> "none",
                     hadPending |-> FALSE]
  /\ nFinals = 0
  /\ nFragments = 0
  /\ sinceFragment = SESSION_TIMEOUT_MS
  /\ elapsed = 0
  /\ liveTimers = NoTimers
  /\ called = {}

\* new TranslatorApp(): subscriber mode, nothing recorded, nothing received
NoApp ==
  [isPublisher |-> FALSE, isRecording |-> FALSE, lastPassword |-> "", key |-> "none",
   recorder |-> "none", chunks |-> FALSE, staleChunks |-> FALSE, stops |-> 0,
   transcribing |-> {}, transcripts |-> 0, throttle |-> 0, results |-> 0, lastFinal |-> 0,
   translations |-> <<>>, received |-> 0, finalsReceived |-> <<>>]

InitClient == apps = [c \in Conns |-> NoApp] /\ appSent = <<>>

Init == InitServer /\ InitClient /\ detected = NoDetection

\* ------------------------------------------------------- registry actions

\* wss.on('connection')
Connection(ws) ==
  /\ NoTimerDue
  /\ ws = nextWs
  /\ LET rs == [readyState EXCEPT ![ws] = "OPEN"]
         conns == Register(connections, ws)
     IN /\ connections' = conns
        /\ readyState' = rs
        /\ sent' = BroadcastSubscriberCount(conns, rs)
        /\ lastEvent' = Event("connection", ws, <<>>, FALSE, "")
  /\ nextWs' = nextWs + 1
  /\ issued' = NoRequest /\ emitted' = NoEmitted
  /\ UNCHANGED <<publisher, sessionVars, inflight, nextSession, lastAuth, finalized,
                 broadcastFinal, cleared,
                 fragmentVars, elapsed, detected, clientVars, callVars>>

\* the transport starts closing: readyState leaves OPEN before 'close' is emitted
TransportClosing(ws) ==
  /\ NoTimerDue
  /\ readyState[ws] = "OPEN"
  /\ readyState' = [readyState EXCEPT ![ws] = "CLOSING"]
  /\ sent' = <<>>
  /\ lastEvent' = Event("closing", ws, <<>>, FALSE, "")
  /\ issued' = NoRequest /\ emitted' = NoEmitted
  /\ UNCHANGED <<connections, publisher, nextWs, sessionVars, inflight, nextSession, lastAuth,
                 finalized, broadcastFinal, cleared, fragmentVars, elapsed, detected,
                 clientVars, callVars>>

\* mutant: every close clears the current-publisher pointer
PublisherClearedByAnyClose(isPub, pub) == NoConn

\* if (connection?.isPublisher) publisher = null
PublisherAfterClose(isPub, pub) == IF isPub THEN NoConn ELSE pub

\* ws.on('close')
OnClose(ws) ==
  /\ NoTimerDue
  /\ readyState[ws] \in {"OPEN", "CLOSING"}
  /\ LET isPub == ws \in DOMAIN connections /\ connections[ws].isPublisher
         conns == Unregister(connections, ws)
         rs == [readyState EXCEPT ![ws] = "CLOSED"]
     IN /\ publisher' = PublisherAfterClose(isPub, publisher)
        /\ connections' = conns
        /\ readyState' = rs
        /\ sent' = BroadcastSubscriberCount(conns, rs)
  /\ lastEvent' = Event("close", ws, <<>>, FALSE, "")
  /\ issued' = NoRequest /\ emitted' = NoEmitted
  /\ UNCHANGED <<nextWs, sessionVars, inflight, nextSession, lastAuth, finalized,
                 broadcastFinal, cleared,
                 fragmentVars, elapsed, detected, clientVars, callVars>>

\* ws.on('error'): the socket is closing when 'error' is emitted, 'close' follows
OnError(ws) ==
  /\ NoTimerDue
  /\ ws \in DOMAIN connections
  /\ readyState[ws] \in {"OPEN", "CLOSING"}
  /\ connections' = Unregister(connections, ws)
  /\ readyState' = [readyState EXCEPT ![ws] = "CLOSING"]
  /\ sent' = <<>>
  /\ lastEvent' = Event("error", ws, <<>>, FALSE, "")
  /\ issued' = NoRequest /\ emitted' = NoEmitted
  /\ UNCHANGED <<publisher, nextWs, sessionVars, inflight, nextSession, lastAuth, finalized,
                 broadcastFinal,
                 cleared, fragmentVars, elapsed, detected, clientVars, callVars>>

\* mutant: the password is not compared
AnyPasswordMatches(password) == TRUE

\* password === PUBLISHER_PASSWORD
PasswordMatches(password) == password = PUBLISHER_PASSWORD

\* mutant: the previous publisher keeps its role
DemoteNobody(conns, pub) == conns

\* mutant: the previous publisher is dropped from the registry
DemoteByRemoval(conns, pub) ==
  IF pub \in DOMAIN conns THEN [c \in (DOMAIN conns) \ {pub} |-> conns[c]] ELSE conns

\* existingConnection.isPublisher = false for the record of the current publisher
DemoteExisting(conns, pub) ==
  IF pub # NoConn /\ pub \in DOMAIN conns
  THEN [conns EXCEPT ![pub] = [isPublisher |-> FALSE]]
  ELSE conns

\* mutant: the record of the authenticated connection is left as it is
PromoteNobody(conns, ws) == conns

\* connection.isPublisher = true
PromoteConnection(conns, ws) == [conns EXCEPT ![ws] = [isPublisher |-> TRUE]]

\* case 'auth': handleAuthentication(ws, password)
HandleAuthentication(ws, password) ==
  /\ NoTimerDue
  /\ readyState[ws] = "OPEN"
  /\ IF PasswordMatches(password)
     THEN LET demoted == DemoteExisting(connections, publisher)
          IN /\ IF ws \in DOMAIN demoted
                THEN /\ connections' = PromoteConnection(demoted, ws)
                     /\ publisher' = ws
                ELSE /\ connections' = demoted
                     /\ publisher' = publisher
             /\ sent' = SendTo(ws, readyState, "auth_success", "Publisher mode activated")
             /\ lastAuth' = ws
     ELSE /\ sent' = SendTo(ws, readyState, "auth_failed", "Invalid password")
          /\ UNCHANGED <<connections, publisher, lastAuth>>
  /\ lastEvent' = Event("auth", ws, <<>>, FALSE, password)
  /\ issued' = NoRequest /\ emitted' = NoEmitted
  /\ UNCHANGED <<readyState, nextWs, sessionVars, inflight, nextSession, finalized,
                 broadcastFinal, cleared,
                 fragmentVars, elapsed, detected, clientVars, callVars>>

\* mutant: the parse error is only logged
MalformedSwallowed(ws, rs) == <<>>

\* ws.send(JSON.stringify({type: 'error', data: 'Invalid message format'}))
MalformedReply(ws, rs) == SendTo(ws, rs, "error", "Invalid message format")

\* JSON.parse throws: the catch of ws.on('message')
MalformedMessage(ws) ==
  /\ NoTimerDue
  /\ readyState[ws] = "OPEN"
  /\ sent' = MalformedReply(ws, readyState)
  /\ lastEvent' = Event("malformed", ws, <<>>, FALSE, "")
  /\ issued' = NoRequest /\ emitted' = NoEmitted
  /\ UNCHANGED <<registryVars, sessionVars, inflight, nextSession, lastAuth, finalized,
                 broadcastFinal,
                 cleared, fragmentVars, elapsed, detected, clientVars, callVars>>

\* ------------------------------------------------- session and debouncing

\* mutant: any registered connection may send fragments
IsRegisteredConnection(conns, ws) == ws \in DOMAIN conns

\* connection?.isPublisher
IsPublisherConnection(conns, ws) == ws \in DOMAIN conns /\ conns[ws].isPublisher

\* mutant: the fragment replaces the session text
LatestFragmentOnly(sessionText, text) == text

\* currentSessionText ? `${currentSessionText} ${text}` : text
Accumulate(sessionText, text) ==
  IF sessionText # <<>> THEN sessionText \o <<Space>> \o text ELSE text

\* mutant: every fragment starts a session
AlwaysFreshSessionId(sid, fresh) == fresh

\* if (!currentSessionId) { currentSessionId = `session-${Date.now()}`; currentSessionText = '' }
StartedSessionId(sid, fresh) == IF sid = NoSession THEN fresh ELSE sid
StartedSessionText(sid, sessionText) == IF sid = NoSession THEN <<>> ELSE sessionText

\* mutant: an idle timer that is pending is left to run
KeptSessionTimeout(pending) == IF pending # NoTimer THEN pending ELSE SESSION_TIMEOUT_MS

\* sessionTimeout = setTimeout(..., 3000), after clearTimeout of the one pending
RearmedSessionTimeout(pending) == SESSION_TIMEOUT_MS

\* mutant: the accumulated text is not compared with the kept one
NeverDuplicateInterim(newSessionText, lastInterim) == FALSE

\* if (newSessionText === lastInterimTranslation) return
IsDuplicateInterim(newSessionText, lastInterim) == newSessionText = lastInterim

\* mutant: a pending timer is neither cleared nor replaced
ScheduledUnlessPending(pending, newSessionText, frag) ==
  IF pending # NoInterim THEN pending
  ELSE [left |-> INTERIM_DELAY_MS, text |-> newSessionText, frag |-> frag]

\* if (interimTranslationTimeout) clearTimeout(interimTranslationTimeout), then
\* interimTranslationTimeout = setTimeout(..., 500) capturing newSessionText
RescheduledInterim(pending, newSessionText, frag) ==
  [left |-> INTERIM_DELAY_MS, text |-> newSessionText, frag |-> frag]

\* mutant: the final path leaves the pending timer running
KeptInterim(pending) == pending

\* the final path: clearTimeout(interimTranslationTimeout); interimTranslationTimeout = null
CancelledInterim(pending) == NoInterim

\* mutant: the final path empties the session text
SessionTextResetAfterFinal(finalSessionText) == <<>>

\* the final path: currentSessionText = finalSessionText
SessionTextAfterFinal(finalSessionText) == finalSessionText

\* the final path does not assign currentSessionId
SessionIdAfterFinal(sid) == sid

\* mutant: the idle timer's callback leaves the text
KeptSessionText(sessionText) == sessionText

\* the idle timer's callback: currentSessionText = ''
ExpiredSessionText(sessionText) == <<>>

\* mutant: the identifier is the one captured when the request was issued
EventIdAtIssue(sidAtIssue, sidNow, fallback) ==
  IF sidAtIssue # NoSession THEN sidAtIssue ELSE fallback

\* id: currentSessionId || `interim-${Date.now()}`  /  currentSessionId || Date.now().toString(),
\* evaluated after `await translateText(...)`
EventId(sidAtIssue, sidNow, fallback) == IF sidNow # NoSession THEN sidNow ELSE fallback

\* translateText throws 'No meaningful content to translate' when correctedText is empty
HasContent(text) == CorrectedText(text) # <<>>

\* the OpenAI request translateText(text) issues: translate(correctedText, sourceLanguage)
Request(path, ws, text, frag, sid, finals) ==
  [path |-> path, ws |-> ws, raw |-> text, text |-> CorrectedText(text), frag |-> frag,
   sid |-> sid, finals |-> finals]

\* mutant: the final path swallows the failure as the interim path does
FinalFailureSwallowed(ws, rs) == <<>>

\* the catch of handleTranslation: ws.send({type: 'error', data: 'Translation failed'})
FinalFailureReply(ws, rs) == SendTo(ws, rs, "error", "Translation failed")

\* mutant: the interim callback reports the failure to every connection
InterimFailureBroadcast(conns, rs) ==
  BroadcastToSubscribers(conns, rs, "error", 0, NoTranslation)

\* the catch of the interim callback: console.error only
InterimFailureReply(conns, rs) == <<>>

\* mutant: a timer is replaced without being cleared
ClearTimeoutForgotten(live, pending) == live

\* if (timer) clearTimeout(timer): one timer less when the handle is of a pending timer
ClearTimeout(live, pending) == IF pending THEN live - 1 ELSE live

\* setTimeout(...): one timer more
SetTimeout(live) == live + 1

\* mutant: the callback is run every 500 ms (setInterval)
RepeatingInterim(pending) == [pending EXCEPT !.left = INTERIM_DELAY_MS]

\* a timer of setTimeout runs its callback once
FiredInterim(pending) == NoInterim

\* the values of the isFinal field of a translation message; "undefined" is a message
\* without the field
IsFinalFields == {"true", "false", "undefined"}
JsonBoolean(b) == IF b THEN "true" ELSE "false"

\* mutant: a message without the field is an interim fragment
IsFinalOrInterim(field) == field = "true"

\* the default of the parameter, isFinal: boolean = true
IsFinalOrDefault(field) == IF field = "undefined" THEN TRUE ELSE field = "true"

\* case 'translation': handleTranslation(ws, data.data, data.isFinal), up to its first
\* suspension
HandleTranslation(ws, text, isFinalField) ==
  LET isFinal == IsFinalOrDefault(isFinalField) IN
  /\ NoTimerDue
  /\ readyState[ws] = "OPEN"
  /\ nFragments' = nFragments + 1
  /\ lastEvent' = [Event("fragment", ws, text, isFinal, "") EXCEPT !.field = isFinalField]
  /\ emitted' = NoEmitted
  /\ UNCHANGED <<registryVars, lastAuth, finalized, broadcastFinal, cleared, elapsed, detected,
                 clientVars>>
  /\ IF ~IsPublisherConnection(connections, ws)
     THEN /\ sent' = SendTo(ws, readyState, "error", "Only publishers can send translations")
          /\ issued' = NoRequest
          /\ UNCHANGED <<sessionVars, inflight, nextSession, superseded, lastAccepted,
                         nFinals, sinceFragment, callVars>>
     ELSE LET sid == StartedSessionId(currentSessionId, nextSession)
              text0 == StartedSessionText(currentSessionId, currentSessionText)
              acc == Accumulate(text0, text)
              frag == lastAccepted.frag + 1
              finals == IF isFinal THEN nFinals + 1 ELSE nFinals
              req == Request("final", ws, acc, frag, sid, finals)
              idle == SetTimeout(ClearTimeout(liveTimers.idle, sessionTimeout # NoTimer))
              interimPending == interimTranslationTimeout # NoInterim
          IN /\ nextSession' = IF currentSessionId = NoSession THEN nextSession + 1
                                ELSE nextSession
             /\ sessionTimeout' = RearmedSessionTimeout(sessionTimeout)
             /\ sinceFragment' = 0
             /\ lastAccepted' = [frag |-> frag, acc |-> acc, isFinal |-> isFinal,
                                 field |-> isFinalField,
                                 hadPending |-> interimTranslationTimeout # NoInterim]
             /\ nFinals' = finals
             /\ superseded' = IF ~isFinal /\ lastAccepted.frag > 0 /\ ~lastAccepted.isFinal
                                 /\ sinceFragment < INTERIM_DELAY_MS
                              THEN superseded \cup {lastAccepted.frag}
                              ELSE superseded
             /\ IF ~isFinal
                THEN /\ currentSessionId' = sid
                     /\ currentSessionText' = acc
                     /\ IF IsDuplicateInterim(acc, lastInterimTranslation)
                        THEN /\ UNCHANGED <<lastInterimTranslation, interimTranslationTimeout>>
                             /\ liveTimers' = [liveTimers EXCEPT !.idle = idle]
                        ELSE /\ lastInterimTranslation' = acc
                             /\ interimTranslationTimeout' =
                                  RescheduledInterim(interimTranslationTimeout, acc, frag)
                             /\ liveTimers' =
                                  [idle |-> idle,
                                   interim |-> SetTimeout(ClearTimeout(liveTimers.interim,
                                                                       interimPending))]
                     /\ sent' = <<>>
                     /\ issued' = NoRequest
                     /\ UNCHANGED <<inflight, called>>
                ELSE /\ interimTranslationTimeout' = CancelledInterim(interimTranslationTimeout)
                     /\ liveTimers' =
                          [idle |-> idle,
                           interim |-> ClearTimeout(liveTimers.interim, interimPending)]
                     /\ currentSessionId' = SessionIdAfterFinal(sid)
                     /\ currentSessionText' = SessionTextAfterFinal(acc)
                     /\ lastInterimTranslation' = <<>>
                     /\ called' = called \cup {frag}
                     /\ IF HasContent(acc)
                        THEN /\ inflight' = inflight \cup {req}
                             /\ issued' = req
                             /\ sent' = <<>>
                        ELSE /\ sent' = FinalFailureReply(ws, readyState)
                             /\ issued' = NoRequest
                             /\ UNCHANGED inflight

\* the callback of interimTranslationTimeout, up to its first suspension
InterimTimeoutFires ==
  /\ interimTranslationTimeout # NoInterim
  /\ interimTranslationTimeout.left = 0
  /\ LET t == interimTranslationTimeout
         req == Request("interim", NoConn, t.text, t.frag, currentSessionId, nFinals)
     IN IF HasContent(t.text)
        THEN /\ inflight' = inflight \cup {req}
             /\ issued' = req
        ELSE /\ issued' = NoRequest
             /\ UNCHANGED inflight
  /\ interimTranslationTimeout' = FiredInterim(interimTranslationTimeout)
  /\ liveTimers' = [liveTimers EXCEPT !.interim = @ - 1]
  /\ called' = called \cup {interimTranslationTimeout.frag}
  /\ sent' = <<>>
  /\ emitted' = NoEmitted
  /\ lastEvent' = Event("interim-timer", NoConn, <<>>, FALSE, "")
  /\ UNCHANGED <<registryVars, lastInterimTranslation, currentSessionText, currentSessionId,
                 sessionTimeout, nextSession, lastAuth, finalized, broadcastFinal, cleared,
                 fragmentVars,
                 elapsed, detected, clientVars>>

\* the callback of sessionTimeout
SessionTimeoutFires ==
  /\ sessionTimeout = 0
  /\ currentSessionId' = NoSession
  /\ currentSessionText' = ExpiredSessionText(currentSessionText)
  /\ sessionTimeout' = NoTimer
  /\ liveTimers' = [liveTimers EXCEPT !.idle = @ - 1]
  /\ cleared' = cleared \cup ({currentSessionId} \ {NoSession})
  /\ sent' = <<>>
  /\ issued' = NoRequest
  /\ emitted' = NoEmitted
  /\ lastEvent' = Event("session-timer", NoConn, <<>>, FALSE, "")
  /\ UNCHANGED <<registryVars, lastInterimTranslation, interimTranslationTimeout, inflight,
                 nextSession, lastAuth, finalized, broadcastFinal, fragmentVars, elapsed,
                 detected, clientVars, called>>

\* what openai.chat.completions.create and translate() can come to
GatewayOutcomes == {"translation", "empty", "conversational", "error"}

\* translate(): content?.trim() || 'Translation failed', and the conversational filter
TranslatedText(outcome) ==
  CASE outcome = "translation" -> "<translation>"
    [] outcome = "empty" -> "Translation failed"
    [] outcome = "conversational" -> "Translation failed - invalid response"
    [] OTHER -> ""

\* the TranslationMessage built once translateText has resolved
TranslationMessage(req, sidNow, outcome) ==
  [id |-> EventId(req.sid, sidNow,
                  IF req.path = "final" THEN FinalFallbackId ELSE InterimFallbackId),
   originalText |-> req.text,
   translatedText |-> TranslatedText(outcome),
   sourceLanguage |-> DetectLanguage(req.text),
   targetLanguage |-> TargetLanguage(DetectLanguage(req.text)),
   isFinal |-> req.path = "final"]

\* the OpenAI request settles and the code after `await translateText(...)` runs
RequestSettles(req, outcome) ==
  /\ NoTimerDue
  /\ req \in inflight
  /\ inflight' = inflight \ {req}
  /\ lastEvent' = Event("settle", req.ws, req.raw, req.path = "final", "")
  /\ issued' = NoRequest
  /\ IF outcome = "error"
     THEN /\ sent' = IF req.path = "final"
                     THEN FinalFailureReply(req.ws, readyState)
                     ELSE InterimFailureReply(connections, readyState)
          /\ emitted' = NoEmitted
          /\ UNCHANGED <<finalized, broadcastFinal>>
     ELSE LET tm == TranslationMessage(req, currentSessionId, outcome)
          IN /\ sent' = BroadcastToSubscribers(connections, readyState, "translation", 0, tm)
             /\ emitted' = [id |-> tm.id, isFinal |-> tm.isFinal, req |-> req]
             /\ finalized' = IF tm.isFinal /\ tm.id > NoSession
                             THEN finalized \cup {tm.id} ELSE finalized
             /\ broadcastFinal' = IF tm.isFinal THEN req.frag ELSE broadcastFinal
  /\ UNCHANGED <<registryVars, sessionVars, nextSession, lastAuth, cleared, fragmentVars,
                 elapsed, detected, clientVars, callVars>>

\* the milliseconds until the next pending timer is due
NextExpiry ==
  IF sessionTimeout = NoTimer THEN interimTranslationTimeout.left
  ELSE IF interimTranslationTimeout = NoInterim THEN sessionTimeout
  ELSE Min(sessionTimeout, interimTranslationTimeout.left)

\* time passes until the next timer is due; nothing else happens meanwhile
Tick ==
  /\ NoTimerDue
  /\ sessionTimeout # NoTimer \/ interimTranslationTimeout # NoInterim
  /\ sessionTimeout' = IF sessionTimeout = NoTimer THEN NoTimer
                       ELSE sessionTimeout - NextExpiry
  /\ interimTranslationTimeout' =
       IF interimTranslationTimeout = NoInterim THEN NoInterim
       ELSE [interimTranslationTimeout EXCEPT !.left = @ - NextExpiry]
  /\ sinceFragment' = Min(SESSION_TIMEOUT_MS, sinceFragment + NextExpiry)
  /\ sent' = <<>>
  /\ issued' = NoRequest
  /\ emitted' = NoEmitted
  /\ lastEvent' = Event("tick", NoConn, <<>>, FALSE, "")
  /\ UNCHANGED <<registryVars, lastInterimTranslation, currentSessionText, currentSessionId,
                 inflight, nextSession, lastAuth, finalized, broadcastFinal, cleared, superseded,
                 lastAccepted, nFinals, nFragments, elapsed, detected, clientVars, callVars>>

\* ms milliseconds pass, no more than are left until the next timer is due
Elapse(ms) ==
  /\ NoTimerDue
  /\ sessionTimeout # NoTimer \/ interimTranslationTimeout # NoInterim
  /\ ms <= NextExpiry
  /\ sessionTimeout' = IF sessionTimeout = NoTimer THEN NoTimer ELSE sessionTimeout - ms
  /\ interimTranslationTimeout' =
       IF interimTranslationTimeout = NoInterim THEN NoInterim
       ELSE [interimTranslationTimeout EXCEPT !.left = @ - ms]
  /\ sinceFragment' = Min(SESSION_TIMEOUT_MS, sinceFragment + ms)
  /\ elapsed' = elapsed + ms
  /\ sent' = <<>>
  /\ issued' = NoRequest
  /\ emitted' = NoEmitted
  /\ lastEvent' = Event("tick", NoConn, <<>>, FALSE, "")
  /\ UNCHANGED <<registryVars, lastInterimTranslation, currentSessionText, currentSessionId,
                 inflight, nextSession, lastAuth, finalized, broadcastFinal, cleared, superseded,
                 lastAccepted, nFinals, nFragments, detected, clientVars, callVars>>

\* a call of translationService.detectLanguage(text)
DetectLanguageCall ==
  /\ detected.language = "none"
  /\ detected' = [detected EXCEPT !.language = DetectLanguage(detected.text)]
  /\ UNCHANGED <<serverVars, clientVars>>

\* ------------------------------------------------------- the browser client
\* An app is the TranslatorApp behind the WebSocket of the same number.  Its timers
\* (throttle, chunk) are untimed: a pending timer fires at any later step.  Fields of an
\* app that the source does not have: staleChunks and the stale flag of a transcription
\* (audio recorded before the last switch to subscriber mode), transcripts, results,
\* lastFinal (the last recognition result a final fragment was sent for), received and
\* finalsReceived (every final event received, newest first).

\* a message of the app to the server
AppMsg(from, type, password, isFinal, result, stale) ==
  [from |-> from, type |-> type, password |-> password, isFinal |-> isFinal,
   result |-> result, stale |-> stale]

\* this.ws && this.ws.readyState === WebSocket.OPEN
SocketOpen(c) == readyState[c] = "OPEN"

\* mutant: the history is never cut
KeepAll(list) == list

\* if (this.translations.length > 50) this.translations = this.translations.slice(0, 50)
Truncate(list) == IF Len(list) > HISTORY_LIMIT THEN SubSeq(list, 1, HISTORY_LIMIT) ELSE list

\* addTranslation: if (translation.isFinal) this.translations.unshift(translation), cut to 50
AddTranslation(list, tm) == IF tm.isFinal THEN Truncate(<<tm>> \o list) ELSE list

\* handleWebSocketMessage(message); the message is taken off the socket by the caller
AppOnMessage(c, msg) ==
  /\ readyState[c] # "NONE"
  /\ apps' =
       [apps EXCEPT ![c] =
          CASE msg.type = "auth_success" ->
                 [@ EXCEPT !.isPublisher = TRUE,
                           !.key = IF @ = "ready" THEN "ready" ELSE "fetching"]
            [] msg.type = "translation" ->
                 [@ EXCEPT !.translations = AddTranslation(@, msg.translation),
                           !.received = @ + 1,
                           !.finalsReceived = IF msg.translation.isFinal
                                              THEN <<msg.translation>> \o @ ELSE @]
            [] OTHER -> @]
  /\ appSent' = <<>>
  /\ UNCHANGED <<serverVarsButSent, detected>>

\* the server's message reaches the app of the connection it was written to
Deliver(c) ==
  \E i \in DOMAIN sent :
    /\ sent[i].to = c
    /\ AppOnMessage(c, sent[i])
    /\ sent' = [j \in 1..(Len(sent) - 1) |-> IF j < i THEN sent[j] ELSE sent[j + 1]]

\* fetchOpenAIKey resolved
AppKeyFetched(c, ok) ==
  /\ apps[c].key = "fetching"
  /\ apps' = [apps EXCEPT ![c].key = IF ok THEN "ready" ELSE "none"]
  /\ appSent' = <<>>
  /\ UNCHANGED <<serverVars, detected>>

\* authenticate(), with a password in the field
AppAuthenticate(c, password) ==
  /\ readyState[c] # "NONE"
  /\ apps' = [apps EXCEPT ![c].lastPassword = password]
  /\ appSent' = IF SocketOpen(c) THEN <<AppMsg(c, "auth", password, FALSE, 0, FALSE)>> ELSE <<>>
  /\ UNCHANGED <<serverVars, detected>>

\* mediaRecorder.stop(): the data recorded so far is pushed to audioChunks and onstop is
\* queued; nothing happens when the recorder is not recording
RecorderStopped(app) ==
  IF app.recorder = "recording"
  THEN [app EXCEPT !.recorder = "inactive", !.chunks = TRUE, !.stops = @ + 1]
  ELSE app

\* stopRecording()
StoppedRecording(app) ==
  [(IF app.recorder # "none" /\ app.isRecording THEN RecorderStopped(app) ELSE app)
     EXCEPT !.isRecording = FALSE]

\* the audio held when the app leaves publisher mode
MarkedStale(app) ==
  [app EXCEPT !.staleChunks = app.chunks,
              !.transcribing = {[t EXCEPT !.stale = TRUE] : t \in @}]

\* switchToSubscriberMode()
AppSwitchToSubscriberMode(c) ==
  /\ readyState[c] # "NONE"
  /\ LET app == [apps[c] EXCEPT !.isPublisher = FALSE]
     IN apps' = [apps EXCEPT ![c] =
                   MarkedStale(IF app.isRecording THEN StoppedRecording(app) ELSE app)]
  /\ appSent' = <<>>
  /\ UNCHANGED <<serverVars, detected>>

\* the Stop button: stopRecording()
AppStopRecording(c) ==
  /\ readyState[c] # "NONE"
  /\ apps' = [apps EXCEPT ![c] = StoppedRecording(@)]
  /\ appSent' = <<>>
  /\ UNCHANGED <<serverVars, detected>>

\* startRecording(), the microphone granted
AppStartRecording(c) ==
  /\ apps[c].key = "ready"
  /\ apps[c].isPublisher
  /\ ~apps[c].isRecording
  /\ apps' = [apps EXCEPT ![c] =
                [@ EXCEPT !.recorder = "recording", !.chunks = FALSE, !.staleChunks = FALSE,
                          !.isRecording = TRUE]]
  /\ appSent' = <<>>
  /\ UNCHANGED <<serverVars, detected>>

\* the 5000 ms timer of scheduleNextChunk
AppChunkTimer(c) ==
  /\ apps[c].isRecording /\ apps[c].recorder = "recording"
  /\ apps' = [apps EXCEPT ![c] = RecorderStopped(@)]
  /\ appSent' = <<>>
  /\ UNCHANGED <<serverVars, detected>>

\* the 100 ms timer that restarts the recorder for the next chunk
AppChunkRestart(c) ==
  /\ apps[c].isRecording /\ apps[c].recorder = "inactive"
  /\ apps' = [apps EXCEPT ![c].recorder = "recording"]
  /\ appSent' = <<>>
  /\ UNCHANGED <<serverVars, detected>>

\* mediaRecorder.onstop: processAudioWithWhisper() up to its fetch; small is a blob of
\* less than 500 bytes
AppOnStop(c, small) ==
  /\ apps[c].stops > 0
  /\ LET app == [apps[c] EXCEPT !.stops = @ - 1]
     IN apps' = [apps EXCEPT ![c] =
                   IF app.key # "ready" \/ ~app.chunks THEN app
                   ELSE IF small THEN [app EXCEPT !.chunks = FALSE, !.staleChunks = FALSE]
                   ELSE [app EXCEPT !.chunks = FALSE, !.staleChunks = FALSE,
                                    !.transcripts = @ + 1,
                                    !.transcribing =
                                       @ \cup {[id |-> app.transcripts + 1,
                                                stale |-> app.staleChunks]}]]
  /\ appSent' = <<>>
  /\ UNCHANGED <<serverVars, detected>>

\* sendTranslation(text)
SendTranslation(c, result, stale) ==
  IF SocketOpen(c) THEN <<AppMsg(c, "translation", "", TRUE, result, stale)>> ELSE <<>>

\* the transcription returned: usable is a transcript of more than 2 characters that is
\* no echo of the prompt
AppTranscribed(c, t, usable) ==
  /\ t \in apps[c].transcribing
  /\ apps' = [apps EXCEPT ![c].transcribing = @ \ {t}]
  /\ appSent' = IF usable /\ readyState[c] # "NONE" /\ apps[c].isPublisher
                THEN SendTranslation(c, 0, t.stale)
                ELSE <<>>
  /\ UNCHANGED <<serverVars, detected>>

\* recognition.onresult with an interim part, a final part or both
AppRecognitionResult(c, hasInterim, hasFinal) ==
  /\ readyState[c] # "NONE"
  /\ hasInterim \/ hasFinal
  /\ LET r == apps[c].results + 1
         may == apps[c].isPublisher
     IN /\ apps' = [apps EXCEPT ![c] =
                      [@ EXCEPT !.results = r,
                                !.throttle = IF hasInterim /\ may /\ SocketOpen(c)
                                             THEN r ELSE @,
                                !.lastFinal = IF hasFinal /\ may /\ SocketOpen(c)
                                              THEN r ELSE @]]
        /\ appSent' = IF hasFinal /\ may THEN SendTranslation(c, r, FALSE) ELSE <<>>
  /\ UNCHANGED <<serverVars, detected>>

\* the 300 ms timer of sendInterimTranslation: this.ws!.send(...)
AppThrottleFires(c) ==
  /\ apps[c].throttle # 0
  /\ apps' = [apps EXCEPT ![c].throttle = 0]
  /\ appSent' = IF SocketOpen(c)
                THEN <<AppMsg(c, "translation", "", FALSE, apps[c].throttle, FALSE)>>
                ELSE <<>>
  /\ UNCHANGED <<serverVars, detected>>

\* the whole server
Next ==
  \/ \E ws \in Conns : Connection(ws)
  \/ \E ws \in Conns : TransportClosing(ws)
  \/ \E ws \in Conns : OnClose(ws)
  \/ \E ws \in Conns : OnError(ws)
  \/ \E ws \in Conns, password \in Passwords : HandleAuthentication(ws, password)
  \/ \E ws \in Conns : MalformedMessage(ws)
  \/ \E ws \in Conns, text \in FragTexts, isFinalField \in IsFinalFields :
        nFragments < MaxFragments /\ HandleTranslation(ws, text, isFinalField)
  \/ InterimTimeoutFires
  \/ SessionTimeoutFires
  \/ \E req \in inflight, outcome \in GatewayOutcomes : RequestSettles(req, outcome)
  \/ Tick

Spec == Init /\ [][Next]_vars

\* the connection registry and the publisher role: every connection event, no fragments
RegistryNext ==
  \/ \E ws \in Conns : Connection(ws)
  \/ \E ws \in Conns : TransportClosing(ws)
  \/ \E ws \in Conns : OnClose(ws)
  \/ \E ws \in Conns : OnError(ws)
  \/ \E ws \in Conns, password \in Passwords : HandleAuthentication(ws, password)
  \/ \E ws \in Conns : MalformedMessage(ws)

RegistrySpec == Init /\ [][RegistryNext]_vars

\* the same, with the 'close' event that the ws library emits for every socket that left
\* OPEN (after 'error' too)
RegistryLiveSpec == RegistrySpec /\ \A ws \in Conns : WF_vars(OnClose(ws))

\* the session pipeline: two clients that connect, authenticate, send fragments and leave
SessionConns == {1, 2}

SessionNext ==
  \/ \E ws \in SessionConns : Connection(ws)
  \/ \E ws \in SessionConns : OnClose(ws)
  \/ \E ws \in SessionConns : HandleAuthentication(ws, PUBLISHER_PASSWORD)
  \/ \E ws \in SessionConns, text \in FragTexts, isFinal \in BOOLEAN :
        nFragments < MaxFragments /\ HandleTranslation(ws, text, JsonBoolean(isFinal))
  \/ InterimTimeoutFires
  \/ SessionTimeoutFires
  \/ \E req \in inflight, outcome \in GatewayOutcomes : RequestSettles(req, outcome)
  \/ Tick

SessionSpec == Init /\ [][SessionNext]_vars

\* the publisher's fragments ("안녕", interim) at 0 ms, ("안녕 하세요", interim) less than
\* 500 ms later and ("안녕하세요", final) at 600 ms
ScenarioFragments ==
  << [text |-> <<WordKo>>, isFinal |-> FALSE, earliest |-> 0, latest |-> 0],
     [text |-> <<WordKo, Space, WordKo2>>, isFinal |-> FALSE, earliest |-> 0, latest |-> 499],
     [text |-> <<WordKo3>>, isFinal |-> TRUE, earliest |-> 600, latest |-> 600] >>

ScenarioSend ==
  /\ nFragments < Len(ScenarioFragments)
  /\ IsPublisherConnection(connections, 1)
  /\ LET f == ScenarioFragments[nFragments + 1]
     IN /\ f.earliest <= elapsed /\ elapsed <= f.latest
        /\ HandleTranslation(1, f.text, JsonBoolean(f.isFinal))

ScenarioNext ==
  \/ Connection(1)
  \/ HandleAuthentication(1, PUBLISHER_PASSWORD)
  \/ ScenarioSend
  \/ InterimTimeoutFires
  \/ SessionTimeoutFires
  \/ \E req \in inflight, outcome \in GatewayOutcomes : RequestSettles(req, outcome)
  \/ \E ms \in {100} : Elapse(ms)

ScenarioSpec == Init /\ [][ScenarioNext]_vars

\* reconnects: every connection event, around fragments of whichever connection is the
\* publisher
ReconnectNext ==
  \/ \E ws \in SessionConns : Connection(ws)
  \/ \E ws \in SessionConns : TransportClosing(ws)
  \/ \E ws \in SessionConns : OnClose(ws)
  \/ \E ws \in SessionConns : OnError(ws)
  \/ \E ws \in SessionConns, password \in Passwords : HandleAuthentication(ws, password)
  \/ \E ws \in SessionConns : MalformedMessage(ws)
  \/ \E ws \in SessionConns, isFinal \in BOOLEAN :
        /\ nFragments < MaxFragments
        /\ IsPublisherConnection(connections, ws)
        /\ HandleTranslation(ws, <<WordEn>>, JsonBoolean(isFinal))
  \/ InterimTimeoutFires
  \/ SessionTimeoutFires
  \/ \E req \in inflight : RequestSettles(req, "translation")
  \/ Tick

ReconnectSpec == Init /\ [][ReconnectNext]_vars

\* delivery: clients whose transports close while final fragments are translated
DeliveryNext ==
  \/ \E ws \in Conns : Connection(ws)
  \/ \E ws \in Conns : TransportClosing(ws)
  \/ \E ws \in Conns : OnClose(ws)
  \/ \E ws \in Conns : HandleAuthentication(ws, PUBLISHER_PASSWORD)
  \/ \E ws \in Conns :
        nFragments < MaxFragments /\ HandleTranslation(ws, <<WordEn>>, "true")
  \/ \E req \in inflight, outcome \in {"translation", "error"} : RequestSettles(req, outcome)

DeliverySpec == Init /\ [][DeliveryNext]_vars

\* the isFinal field: a publisher whose fragments carry true, false or no field at all
FinalityNext ==
  \/ Connection(1)
  \/ HandleAuthentication(1, PUBLISHER_PASSWORD)
  \/ \E isFinalField \in IsFinalFields :
        nFragments < MaxFragments + 1 /\ HandleTranslation(1, <<WordEn>>, isFinalField)
  \/ InterimTimeoutFires
  \/ SessionTimeoutFires
  \/ \E req \in inflight, outcome \in GatewayOutcomes : RequestSettles(req, outcome)
  \/ Tick

FinalitySpec == Init /\ [][FinalityNext]_vars

\* the server takes the auth message the app has just written to its socket
ServerTakesAuth(c) ==
  /\ appSent # <<>>
  /\ appSent[1].type = "auth"
  /\ appSent[1].from = c
  /\ HandleAuthentication(c, appSent[1].password)

\* one publisher's browser: authentication, the recorder and its transcriptions, and
\* the mode buttons
RecorderNext ==
  \/ Connection(1)
  \/ AppAuthenticate(1, PUBLISHER_PASSWORD)
  \/ ServerTakesAuth(1)
  \/ Deliver(1)
  \/ \E ok \in BOOLEAN : AppKeyFetched(1, ok)
  \/ AppSwitchToSubscriberMode(1)
  \/ apps[1].stops < MaxTranscripts /\ AppStartRecording(1)
  \/ AppStopRecording(1)
  \/ apps[1].stops < MaxTranscripts /\ AppChunkTimer(1)
  \/ AppChunkRestart(1)
  \/ \E small \in BOOLEAN : apps[1].transcripts < MaxTranscripts /\ AppOnStop(1, small)
  \/ \E t \in apps[1].transcribing, usable \in BOOLEAN : AppTranscribed(1, t, usable)

RecorderSpec == Init /\ [][RecorderNext]_vars

\* the role as the clients and the server see it: two apps that connect, authenticate and
\* switch modes, the server handling what they send and its replies reaching them
AgreementNext ==
  \/ \E c \in SessionConns : Connection(c)
  \/ \E c \in SessionConns, password \in Passwords : AppAuthenticate(c, password)
  \/ \E c \in SessionConns : ServerTakesAuth(c)
  \/ \E c \in SessionConns : Deliver(c)
  \/ \E c \in SessionConns : AppSwitchToSubscriberMode(c)

AgreementSpec == Init /\ [][AgreementNext]_vars

\* recognition results: an app that authenticates, receives interim and final results of
\* the speech recognition, and switches modes
RecognitionNext ==
  \/ Connection(1)
  \/ AppAuthenticate(1, PUBLISHER_PASSWORD)
  \/ ServerTakesAuth(1)
  \/ Deliver(1)
  \/ AppSwitchToSubscriberMode(1)
  \/ \E hasInterim, hasFinal \in BOOLEAN :
        apps[1].results < MaxResults /\ AppRecognitionResult(1, hasInterim, hasFinal)
  \/ AppThrottleFires(1)

RecognitionSpec == Init /\ [][RecognitionNext]_vars

\* the n-th translation event the server writes to a subscriber
ReceivedEvent(n, isFinal) ==
  Msg(1, "translation", "", 0, [NoTranslation EXCEPT !.id = n, !.isFinal = isFinal])

\* ws.onmessage with a translation event, final or interim
ReceiveTranslation(isFinal) ==
  /\ apps[1].received < MaxReceived
  /\ isFinal \/ apps[1].received - Len(apps[1].finalsReceived) < MaxInterimEvents
  /\ AppOnMessage(1, ReceivedEvent(apps[1].received + 1, isFinal))
  /\ UNCHANGED sent

\* the history of a subscriber: a long run of translation events reaches one app
HistoryNext ==
  \/ Connection(1)
  \/ \E isFinal \in BOOLEAN : ReceiveTranslation(isFinal)

HistorySpec == Init /\ [][HistoryNext]_vars

\* detectLanguage on its own: every text of up to MaxDetectLen tokens
DetectTokens == {Space, WordEn, WordKo, WordKoNFD, Digits, Punct, Pipe}
DetectTexts == UNION {[1..n -> DetectTokens] : n \in 0..MaxDetectLen}

DetectInit ==
  /\ InitServer
  /\ InitClient
  /\ detected \in {[text |-> t, language |-> "none"] : t \in DetectTexts}

DetectNext == DetectLanguageCall

DetectSpec == DetectInit /\ [][DetectNext]_vars

\* ================================================================ claims

\* the step handled a fragment message / a fragment of the connection holding the role
FragmentStep == lastEvent'.kind = "fragment"
FromPublisher ==
  lastEvent'.from \in DOMAIN connections /\ connections[lastEvent'.from].isPublisher
AcceptedStep == FragmentStep /\ FromPublisher

\* the session text with the fragment of the step appended, written out
FullText ==
  IF currentSessionId = NoSession \/ currentSessionText = <<>>
  THEN lastEvent'.text
  ELSE currentSessionText \o <<" ">> \o lastEvent'.text

IsBlank(text) == \A i \in 1..Len(text) : text[i] = " "
\* fragments are joined by single spaces: a text with no leading, trailing or doubled
\* space is one whose fragments were all words
EveryFragmentIsAWord(text) ==
  /\ text # <<>>
  /\ text[1] # " " /\ text[Len(text)] # " "
  /\ \A i \in 1..(Len(text) - 1) : ~(text[i] = " " /\ text[i + 1] = " ")
IsEmptyWhenNormalized(text) == \A i \in 1..Len(text) : text[i] \in {" ", "thanks"}

OneMessage(to, type) == Len(sent') = 1 /\ sent'[1].to = to /\ sent'[1].type = type

\* ---- C1
\* C1: at most one registered connection has the publisher role, and it is the
\* connection that most recently authenticated successfully, which holds the role for
\* as long as it is registered.
C1_SinglePublisher ==
  /\ Cardinality({c \in DOMAIN connections : connections[c].isPublisher}) <= 1
  /\ \A c \in DOMAIN connections : connections[c].isPublisher => c = lastAuth
  /\ (lastAuth \in DOMAIN connections) => connections[lastAuth].isPublisher

\* a second connection authenticated while the first one, demoted, stays registered
C1_Witness ==
  /\ lastEvent.kind = "auth" /\ lastEvent.from = 2 /\ lastAuth = 2
  /\ {1, 2} \subseteq DOMAIN connections
  /\ ~connections[1].isPublisher
  /\ connections[2].isPublisher
  /\ publisher = 2

C4_StaleResultDiscarded ==
  (/\ emitted.req.path = "interim"
   /\ EveryFragmentIsAWord(emitted.req.raw)
   /\ currentSessionText = <<>> \/ EveryFragmentIsAWord(currentSessionText))
    => (emitted.req.sid = currentSessionId /\ emitted.req.finals = nFinals)

\* ---- C5
\* C5: an interim gateway call is never made for a fragment that was followed by another
\* interim fragment in less than 500 ms; it is made for the last accepted fragment, with
\* the accumulated text as of that fragment.
C5_Supersession ==
  issued.path = "interim"
    => /\ issued.frag \notin superseded
       /\ issued.frag = lastAccepted.frag
       /\ issued.raw = currentSessionText

\* the call made for the second interim fragment of a burst
C5_Witness ==
  /\ issued.path = "interim"
  /\ superseded = {1}
  /\ issued.frag = 2
  /\ issued.raw = <<"hello", " ", "hello">>

C7_IdleTimeout ==
  [][/\ AcceptedStep => sessionTimeout' = 3000
     /\ (sinceFragment' >= 3000 /\ sessionTimeout' # 0)
          => (currentSessionId' = NoSession /\ currentSessionText' = <<>>)
     /\ (AcceptedStep /\ sinceFragment >= 3000)
          => /\ currentSessionId' \notin cleared \cup {NoSession}
             /\ currentSessionText' = lastEvent'.text]_vars

\* the first fragment after an idle gap, alone in a new session
C7_Witness ==
  /\ lastEvent.kind = "fragment"
  /\ cleared = {1}
  /\ currentSessionId = 2
  /\ lastAccepted.frag = 2
  /\ currentSessionText = <<"hello">>

\* ---- C8
\* C8: a blank (empty or whitespace-only) fragment of the publisher leaves the session
\* identifier and the accumulated text as they are, issues no gateway call and sends nothing.
C8_BlankFragmentIgnored ==
  [][(AcceptedStep /\ IsBlank(lastEvent'.text))
       => /\ currentSessionId' = currentSessionId
          /\ currentSessionText' = currentSessionText
          /\ interimTranslationTimeout' = interimTranslationTimeout
          /\ issued' = NoRequest
          /\ sent' = <<>>]_vars

\* ---- C9
\* C9: a fragment of a connection that does not hold the publisher role gets exactly one
\* error message, sent to its sender, and changes nothing of the session, no timer, and
\* issues no gateway call and no broadcast.
C9_NonPublisherRejected ==
  [][(FragmentStep /\ ~FromPublisher)
       => /\ OneMessage(lastEvent'.from, "error")
          /\ UNCHANGED sessionVars
          /\ inflight' = inflight
          /\ issued' = NoRequest
          /\ emitted' = NoEmitted]_vars

\* a rejected fragment while another connection is the publisher of an active session
C9_Witness ==
  /\ lastEvent.kind = "fragment"
  /\ ~(lastEvent.from \in DOMAIN connections /\ connections[lastEvent.from].isPublisher)
  /\ publisher # NoConn /\ publisher # lastEvent.from
  /\ readyState[publisher] = "OPEN"
  /\ currentSessionId # NoSession
  /\ Len(sent) = 1 /\ sent[1].data = "Only publishers can send translations"

\* ---- C10
\* C10: an authenticate message with a wrong secret changes no role and not the publisher
\* pointer and is answered by exactly one auth_failed, to its sender; one with the right
\* secret is answered by exactly one auth_success, to its sender.
C10_AuthReply ==
  [][lastEvent'.kind = "auth"
       => IF lastEvent'.password = "status2024"
          THEN OneMessage(lastEvent'.from, "auth_success")
          ELSE /\ OneMessage(lastEvent'.from, "auth_failed")
               /\ connections' = connections
               /\ publisher' = publisher
               /\ UNCHANGED <<readyState, sessionVars, inflight>>]_vars

\* a wrong secret from a connection while another connection is the publisher
C10_Witness ==
  /\ lastEvent.kind = "auth" /\ lastEvent.password = "wrong"
  /\ publisher # NoConn /\ publisher # lastEvent.from
  /\ publisher \in DOMAIN connections /\ connections[publisher].isPublisher
  /\ Len(sent) = 1 /\ sent[1].type = "auth_failed" /\ sent[1].to = lastEvent.from

\* ---- C11
\* the step handled a right secret of a registered connection while another registered
\* connection held the publisher role
TakeoverStep ==
  /\ lastEvent'.kind = "auth" /\ lastEvent'.password = "status2024"
  /\ lastEvent'.from \in DOMAIN connections
  /\ \E a \in DOMAIN connections : a # lastEvent'.from /\ connections[a].isPublisher

\* the messages of the step addressed to connection c
CopiesTo(c) == Cardinality({i \in 1..Len(sent') : sent'[i].to = c})

BroadcastStep == lastEvent'.kind \in {"connection", "close"} \/ emitted' # NoEmitted

\* C11: when B authenticates successfully while another connection A holds the publisher
\* role, A's record flips to subscriber, A stays registered with its transport as it was,
\* B holds the role, and every later broadcast still reaches every open registered
\* connection that does not hold the role.
C11_DemotionKeepsConnection ==
  [][/\ TakeoverStep
          => /\ \A a \in DOMAIN connections :
                  (a # lastEvent'.from /\ connections[a].isPublisher)
                    => /\ a \in DOMAIN connections'
                       /\ ~connections'[a].isPublisher
                       /\ readyState'[a] = readyState[a]
             /\ DOMAIN connections' = DOMAIN connections
             /\ connections'[lastEvent'.from].isPublisher
             /\ publisher' = lastEvent'.from
     /\ BroadcastStep
          => \A c \in DOMAIN connections' :
               (readyState'[c] = "OPEN" /\ ~connections'[c].isPublisher) => CopiesTo(c) = 1]_vars

\* the subscriber count of a third connection reaches connection 1, which lost the role
\* to connection 2
C11_Witness ==
  /\ lastEvent.kind = "connection" /\ lastEvent.from = 3
  /\ lastAuth = 2 /\ publisher = 2
  /\ DOMAIN connections = {1, 2, 3}
  /\ ~connections[1].isPublisher /\ readyState[1] = "OPEN"
  /\ \E i \in 1..Len(sent) : sent[i].to = 1 /\ sent[i].count = 3

\* ---- C12
\* C12: the publisher pointer is null or refers to a registered connection whose record
\* has the publisher role.
C12_PublisherPointerValid ==
  publisher = NoConn
    \/ (publisher \in DOMAIN connections /\ connections[publisher].isPublisher)

\* ---- C13
\* C13: a broadcast delivers exactly one copy to every registered connection whose
\* transport is open, whatever its role, and nothing to any other connection.
C13_BroadcastDelivery ==
  [][BroadcastStep
       => \A c \in Conns :
            CopiesTo(c) = IF c \in DOMAIN connections' /\ readyState'[c] = "OPEN"
                          THEN 1 ELSE 0]_vars

\* a translation event delivered to the publisher and to a subscriber while a third
\* registered connection is closing
C13_Witness ==
  /\ emitted # NoEmitted
  /\ DOMAIN connections = {1, 2, 3}
  /\ publisher \in {1, 2, 3} /\ readyState[publisher] = "OPEN"
  /\ \E c \in DOMAIN connections : readyState[c] = "CLOSING"
  /\ Len(sent) = 2
  /\ \A i \in 1..Len(sent) : sent[i].type = "translation" /\ readyState[sent[i].to] = "OPEN"

\* ---- C14
\* the step ran the code after a request that failed, of the final / the interim path
FinalFailureStep == lastEvent'.kind = "settle" /\ lastEvent'.isFinal /\ emitted' = NoEmitted
InterimFailureStep == lastEvent'.kind = "settle" /\ ~lastEvent'.isFinal /\ emitted' = NoEmitted

\* C14: when the gateway call of a final fragment fails, one error message goes to the
\* connection that sent the fragment (none when its transport is no longer open) and
\* nothing to any other connection, no translation event is broadcast, and registry and
\* session are left as they are.
C14_FinalFailureToSender ==
  [][FinalFailureStep
       => /\ IF readyState[lastEvent'.from] = "OPEN"
             THEN OneMessage(lastEvent'.from, "error")
             ELSE sent' = <<>>
          /\ UNCHANGED <<registryVars, sessionVars>>]_vars

\* the failure of a final call reported to the publisher only, a subscriber being connected
\* and the session still active
C14_Witness ==
  /\ lastEvent.kind = "settle" /\ lastEvent.isFinal /\ emitted = NoEmitted
  /\ publisher = lastEvent.from
  /\ \E c \in DOMAIN connections : c # publisher /\ readyState[c] = "OPEN"
  /\ Len(sent) = 1 /\ sent[1].to = publisher /\ sent[1].data = "Translation failed"
  /\ currentSessionId # NoSession /\ currentSessionText = <<"hello">>

\* ---- C15
\* C15: no translation event whose translated text is a failure placeholder is sent to a
\* connection.
C15_NoPlaceholderBroadcast ==
  \A i \in 1..Len(sent) :
    sent[i].type = "translation"
      => sent[i].translation.translatedText
           \notin {"Translation failed", "Translation failed - invalid response"}

\* ---- C16
\* C16: when the delayed call of an interim fragment fails, nothing is sent to any
\* connection and registry and session are left as they are; an interim fragment accepted
\* with a text other than the dedup text arms the debounce timer with its accumulated text.
C16_InterimFailureSwallowed ==
  [][/\ InterimFailureStep => (sent' = <<>> /\ UNCHANGED <<registryVars, sessionVars>>)
     /\ (lastEvent'.kind = "interim-timer" /\ issued' = NoRequest) => sent' = <<>>
     /\ (AcceptedStep /\ ~lastEvent'.isFinal /\ FullText # lastInterimTranslation)
          => /\ interimTranslationTimeout'.left = 500
             /\ interimTranslationTimeout'.text = FullText]_vars

\* the failure of an interim call while two connections are open and the session is active
C16_Witness ==
  /\ lastEvent.kind = "settle" /\ ~lastEvent.isFinal /\ emitted = NoEmitted
  /\ sent = <<>>
  /\ Cardinality({c \in DOMAIN connections : readyState[c] = "OPEN"}) = 2
  /\ currentSessionId # NoSession
  /\ nFragments < MaxFragments

\* ---- C17
\* C17 as claimed: in the scenario the only gateway call is the one of the final fragment,
\* its text is "안녕하세요" and its language Korean, and every event broadcast is final.
C17_ScenarioOneCallFinalText ==
  [][/\ issued'.path # "none"
          => /\ issued'.path = "final"
             /\ issued'.text = <<"annyeonghaseyo">>
             /\ DetectLanguage(issued'.text) = "ko"
     /\ emitted' # NoEmitted => emitted'.isFinal]_vars

\* C17, amended: when the final fragment arrives less than 500 ms after the second interim
\* fragment, the pending timer is cancelled, no gateway call was made before, the call of
\* the final fragment carries the three fragments joined by single spaces, and afterwards
\* no further call is made and every event broadcast is final and Korean; an interim call
\* is made only after 500 ms without a fragment.
C17_ScenarioAccumulatedText ==
  [][/\ (AcceptedStep /\ lastEvent'.isFinal /\ sinceFragment < 500)
          => /\ interimTranslationTimeout' = NoInterim
             /\ inflight = {} /\ finalized = {}
             /\ issued'.path = "final"
             /\ issued'.text = <<"annyeong", " ", "annyeong", " ", "haseyo", " ",
                                  "annyeonghaseyo">>
             /\ inflight' = {issued'}
     /\ issued'.path = "interim" => (sinceFragment' = 500 /\ ~lastAccepted.isFinal)
     /\ (lastAccepted.isFinal /\ lastAccepted.hadPending)
          => /\ issued' = NoRequest
             /\ emitted' # NoEmitted
                  => /\ emitted'.isFinal
                     /\ Len(sent') = 1
                     /\ sent'[1].translation.sourceLanguage = "ko"
                     /\ inflight' = {}]_vars

\* the one event of the scenario: the second fragment came at 200 ms or later, so the
\* final one at 600 ms found the timer pending
C17_Witness ==
  /\ elapsed >= 600
  /\ nFragments = 3 /\ lastAccepted.isFinal /\ lastAccepted.hadPending
  /\ emitted.isFinal /\ emitted.id = 1
  /\ Len(sent) = 1 /\ sent[1].translation.sourceLanguage = "ko"
  /\ sent[1].translation.originalText
       = <<"annyeong", " ", "annyeong", " ", "haseyo", " ", "annyeonghaseyo">>

\* ---- C18
\* C18, for fragments that are words other than fillers: an accepted interim fragment
\* schedules the gateway call of its accumulated text 500 ms later.
C18_InterimSchedulesCall ==
  [][(AcceptedStep /\ ~lastEvent'.isFinal /\ EveryFragmentIsAWord(FullText)
        /\ ~IsEmptyWhenNormalized(FullText))
       => /\ interimTranslationTimeout'.left = 500
          /\ interimTranslationTimeout'.text = FullText]_vars

\* ---- C19
\* C19, for sessions whose fragments are all words: a broadcast translation event carries
\* the session identifier that was current when its gateway call was issued.
C19_EventCarriesOwningSession ==
  (emitted.req.path # "none" /\ EveryFragmentIsAWord(emitted.req.raw))
    => emitted.id = emitted.req.sid

\* ---- C20
ConnectionEventStep ==
  lastEvent'.kind \in {"connection", "auth", "closing", "close", "error", "malformed"}

\* C20: a connection event leaves the session identifier, the accumulated text, the dedup
\* text and both timers as they are; identifier and text change only in a step that
\* accepts a fragment or runs the idle timer's callback; and a fragment accepted while a
\* session is active continues that session, whichever connection sent it.
C20_SessionOutlivesConnections ==
  [][/\ ConnectionEventStep => UNCHANGED sessionVars
     /\ (currentSessionId' # currentSessionId \/ currentSessionText' # currentSessionText)
          => (AcceptedStep \/ lastEvent'.kind = "session-timer")
     /\ (AcceptedStep /\ currentSessionId # NoSession)
          => /\ currentSessionId' = currentSessionId
             /\ currentSessionText' = FullText]_vars

\* the publisher's first connection is gone and its second connection, authenticated
\* within 3000 ms, continues session 1
C20_Witness ==
  /\ lastEvent.kind = "fragment" /\ lastEvent.from = 2
  /\ readyState[1] = "CLOSED" /\ 1 \notin DOMAIN connections
  /\ publisher = 2 /\ lastAuth = 2
  /\ lastAccepted.frag = 2
  /\ cleared = {}
  /\ currentSessionId = 1
  /\ currentSessionText = <<"hello", " ", "hello">>

\* ---- C21
\* the messages are one subscriber_count message for every open connection of the
\* registry, each with the size of the registry
IsCountBroadcast(msgs, conns, rs) ==
  /\ \A c \in DOMAIN conns :
        rs[c] = "OPEN" => Cardinality({i \in DOMAIN msgs : msgs[i].to = c}) = 1
  /\ \A i \in DOMAIN msgs :
        /\ msgs[i].type = "subscriber_count"
        /\ msgs[i].count = Cardinality(DOMAIN conns)
        /\ msgs[i].to \in DOMAIN conns /\ rs[msgs[i].to] = "OPEN"

\* C21: every addition of a connection to the registry and every removal from it is
\* followed by a subscriber_count broadcast to all open connections, with the size of the
\* registry after the change: in the same step when 'connection' or 'close' changes the
\* registry, and in the step of the 'close' event that follows when 'error' removed the
\* connection.
C21_CountFollowsChange ==
  /\ [][/\ (DOMAIN connections' # DOMAIN connections /\ lastEvent'.kind # "error")
             => IsCountBroadcast(sent', connections', readyState')
        /\ lastEvent'.kind = "close"
             => /\ lastEvent'.from \notin DOMAIN connections'
                /\ IsCountBroadcast(sent', connections', readyState')
        /\ (DOMAIN connections' # DOMAIN connections /\ lastEvent'.kind = "error")
             => readyState'[lastEvent'.from] = "CLOSING"]_vars
  /\ \A ws \in Conns :
        (readyState[ws] = "CLOSING") ~> (lastEvent.kind = "close" /\ lastEvent.from = ws)

\* the 'close' of a publisher that 'error' had removed (its pointer was left behind),
\* telling the one connection that remains
C21_Witness ==
  /\ lastEvent.kind = "close" /\ publisher = lastEvent.from
  /\ Len(sent) = 1
  /\ sent[1].type = "subscriber_count" /\ sent[1].count = 1
  /\ sent[1].to \in DOMAIN connections

\* ---- C22
\* C22: a payload that cannot be parsed produces exactly one error message, to the sender
\* only; the sender stays registered and open, and neither the registry nor the session
\* state (nor the requests in flight) changes.
C22_MalformedIsIsolated ==
  [][lastEvent'.kind = "malformed"
       => /\ OneMessage(lastEvent'.from, "error")
          /\ sent'[1].data = "Invalid message format"
          /\ readyState'[lastEvent'.from] = "OPEN"
          /\ connections' = connections
          /\ publisher' = publisher
          /\ readyState' = readyState
          /\ UNCHANGED <<sessionVars, inflight, liveTimers>>
          /\ issued' = NoRequest /\ emitted' = NoEmitted]_vars

\* an unparseable payload from a subscriber while the publisher's session is open, its
\* debounce timer pending, and another request in flight
C22_Witness ==
  /\ lastEvent.kind = "malformed"
  /\ lastEvent.from \in DOMAIN connections /\ ~connections[lastEvent.from].isPublisher
  /\ publisher \in DOMAIN connections /\ publisher # lastEvent.from
  /\ Len(sent) = 1 /\ sent[1].to = lastEvent.from /\ sent[1].type = "error"
  /\ currentSessionId # NoSession
  /\ interimTranslationTimeout # NoInterim
  /\ inflight # {}

\* ---- C24
\* the step called translateText: the debounce timer's callback or a final fragment
CallStep == lastEvent'.kind = "interim-timer" \/ (AcceptedStep /\ lastEvent'.isFinal)

\* C24: the gateway is never called again for a fragment.  Every call is made for an
\* accepted fragment that had none before, so the fragments with a call are never more
\* than the accepted ones; the step in which a call fails issues no request and arms no
\* timer.
C24_NoRetry ==
  [][/\ CallStep
          => \E f \in 1..lastAccepted'.frag :
                /\ f \notin called
                /\ called' = called \cup {f}
                /\ issued'.path # "none" => issued'.frag = f
     /\ ~CallStep => (called' = called /\ issued'.path = "none")
     /\ Cardinality(called') <= lastAccepted'.frag
     /\ (lastEvent'.kind = "settle" /\ emitted'.req.path = "none")
          => /\ issued'.path = "none"
             /\ inflight' \subseteq inflight /\ inflight' # inflight
             /\ interimTranslationTimeout' = interimTranslationTimeout
             /\ liveTimers' = liveTimers]_vars

\* two fragments, a call for each, the second of which failed
C24_Witness ==
  /\ lastEvent.kind = "settle"
  /\ emitted.req.path = "none"
  /\ lastAccepted.frag = 2
  /\ called = {1, 2}
  /\ inflight = {}

C26_JoinedBySingleSpaces ==
  [][/\ AcceptedStep
          => currentSessionText' =
               IF currentSessionId = NoSession
               THEN lastEvent'.text
               ELSE currentSessionText \o <<" ">> \o lastEvent'.text
     /\ (~AcceptedStep /\ lastEvent'.kind # "session-timer")
          => currentSessionText' = currentSessionText]_vars

\* ---- C27
\* the text holds a Hangul character, of whichever Unicode block
ContainsHangul(text) == \E i \in 1..Len(text) : text[i] \in Hangul \cup {WordKoNFD}

\* C27: detectLanguage returns 'ko' exactly when the text contains at least one Hangul
\* character, and 'en' for every other text, the empty one and those of digits,
\* punctuation and symbols included.
C27_KoreanExactlyWhenHangul ==
  detected.language # "none"
    => detected.language = (IF ContainsHangul(detected.text) THEN "ko" ELSE "en")

\* ---- C28
\* the role of a connection: none before it connects, disconnected once it left the registry
Role(conns, rs, c) ==
  IF c \in DOMAIN conns
  THEN (IF conns[c].isPublisher THEN "publisher" ELSE "subscriber")
  ELSE (IF rs[c] = "NONE" THEN "none" ELSE "disconnected")

\* C28: a connection becomes publisher only in the step that handles an authenticate
\* message with the right password from that same connection; every other change of a
\* role is to subscriber or to disconnected, and a disconnected connection keeps no role
\* for good.
C28_RoleChanges ==
  [][\A c \in Conns :
       LET before == Role(connections, readyState, c)
           after == Role(connections', readyState', c)
       IN /\ (after = "publisher" /\ before # "publisher")
               => /\ lastEvent'.kind = "auth" /\ lastEvent'.from = c
                  /\ lastEvent'.password = "status2024"
                  /\ before = "subscriber"
          /\ (after # before /\ after # "publisher")
               => after \in {"subscriber", "disconnected"}
          /\ before = "disconnected" => after = "disconnected"]_vars

\* the publisher's socket failed: it is disconnected and nobody else gained the role
C28_Witness ==
  /\ lastEvent.kind = "error"
  /\ publisher = lastEvent.from
  /\ Role(connections, readyState, lastEvent.from) = "disconnected"
  /\ \E c \in DOMAIN connections : TRUE
  /\ \A c \in DOMAIN connections : ~connections[c].isPublisher

\* ---- C29
\* C29: at most one debounce timer and at most one idle timer are pending, and they are the
\* ones the variables interimTranslationTimeout and sessionTimeout refer to; accepting a
\* final fragment leaves no debounce timer pending.
C29_OneTimerOfEachKind ==
  /\ [](/\ liveTimers.interim = (IF interimTranslationTimeout # NoInterim THEN 1 ELSE 0)
        /\ liveTimers.idle = (IF sessionTimeout # NoTimer THEN 1 ELSE 0))
  /\ [][(AcceptedStep /\ lastEvent'.isFinal)
          => (liveTimers'.interim = 0 /\ interimTranslationTimeout' = NoInterim)]_vars

\* a final fragment accepted while the debounce timer of an interim one was pending:
\* that timer is gone and the idle timer, replaced, is the only one
C29_Witness ==
  /\ lastEvent.kind = "fragment" /\ lastEvent.isFinal
  /\ lastAccepted.frag = 2 /\ lastAccepted.hadPending
  /\ liveTimers = [interim |-> 0, idle |-> 1]
  /\ sessionTimeout = 3000

\* ---- C30
\* C30: a translation event has the flag of the fragment its gateway call was made for:
\* isFinal = false when the call came from the debounce timer of an interim fragment,
\* isFinal = true when it came from the handler of a final fragment; and a fragment
\* without an isFinal field takes the final path.
C30_FlagOfTriggeringFragment ==
  [][/\ emitted'.req.path # "none"
          => /\ emitted'.isFinal = (emitted'.req.path = "final")
             /\ \A i \in DOMAIN sent' :
                   /\ sent'[i].type = "translation"
                   /\ sent'[i].translation.isFinal = emitted'.isFinal
     /\ issued'.path = "interim"
          => /\ lastEvent'.kind = "interim-timer"
             /\ issued'.frag = lastAccepted.frag /\ ~lastAccepted.isFinal
     /\ issued'.path = "final"
          => /\ AcceptedStep /\ lastEvent'.field \in {"true", "undefined"}
             /\ issued'.frag = lastAccepted'.frag
     /\ AcceptedStep
          => /\ lastEvent'.isFinal = (lastEvent'.field # "false")
             /\ lastAccepted'.isFinal = lastEvent'.isFinal
             /\ lastEvent'.field # "false"
                  => (issued'.path = "final" /\ interimTranslationTimeout' = NoInterim)
             /\ lastEvent'.field = "false" => issued'.path = "none"]_vars

\* the final event of a fragment that was sent without the field
C30_Witness ==
  /\ lastEvent.kind = "settle"
  /\ emitted.req.path = "final" /\ emitted.isFinal
  /\ Len(sent) = 1 /\ sent[1].translation.isFinal
  /\ lastAccepted.frag = emitted.req.frag
  /\ lastAccepted.isFinal /\ lastAccepted.field = "undefined"
  /\ nFinals = 1
  /\ called = {emitted.req.frag}

\* ---- C31
\* C31: switching an app to subscriber mode sends nothing and leaves the server's
\* registry as it is; it stops a running recording; and no final fragment is sent for
\* audio that was recorded before the switch and had not produced a final fragment by
\* then, a transcription in flight at the switch included.
C31_SwitchIsLocal ==
  [][\A c \in Conns :
       /\ (apps[c].isPublisher /\ ~apps'[c].isPublisher)
            => /\ appSent' = <<>>
               /\ UNCHANGED registryVars
               /\ ~apps'[c].isRecording /\ apps'[c].recorder # "recording"
       /\ apps'[c] # apps[c]
            => \A i \in DOMAIN appSent' :
                  (appSent'[i].type = "translation" /\ appSent'[i].isFinal)
                    => ~appSent'[i].stale]_vars


\* ---- C32
\* C32: closing a connection whose registry record does not have the publisher role at
\* the time of the close leaves the current-publisher pointer and the role of every other
\* connection as they were.
C32_CloseOfNonPublisher ==
  [][\A ws \in Conns :
       (lastEvent'.kind = "close" /\ lastEvent'.from = ws
          /\ ~IsPublisherConnection(connections, ws))
         => /\ publisher' = publisher
            /\ \A c \in (DOMAIN connections) \ {ws} :
                  c \in DOMAIN connections' /\ connections'[c] = connections[c]]_vars

\* the old connection of a publisher is closed after a newer connection took the role
C32_Witness ==
  /\ lastEvent.kind = "close"
  /\ lastEvent.from < publisher
  /\ lastAuth = publisher
  /\ IsPublisherConnection(connections, publisher)


\* ---- C33
\* C33: final events are broadcast in the order in which their final fragments were
\* handled: a final event is broadcast only for a fragment handled after the fragment of
\* every final event broadcast before it.
C33_FinalsInReceiveOrder ==
  [][(emitted'.isFinal /\ emitted'.req.path = "final")
       => emitted'.req.frag > broadcastFinal]_vars


\* ---- C34
\* C34, for fragments that are words other than fillers: an interim fragment that starts a
\* new session after the idle timer ended the session before schedules the gateway call of
\* its text 500 ms later, whatever the text of the last interim trigger was.
C34_DedupStopsAtSessionEnd ==
  [][(AcceptedStep /\ ~lastEvent'.isFinal
        /\ currentSessionId = NoSession /\ cleared # {}
        /\ EveryFragmentIsAWord(FullText) /\ ~IsEmptyWhenNormalized(FullText))
       => /\ interimTranslationTimeout' # NoInterim
          /\ interimTranslationTimeout'.left = INTERIM_DELAY_MS
          /\ interimTranslationTimeout'.frag = lastAccepted'.frag]_vars

\* ---- C35
\* an authenticate request of connection c, or the server's reply to one, is on its way
AuthInFlight(c) ==
  \/ \E i \in DOMAIN appSent : appSent[i].from = c /\ appSent[i].type = "auth"
  \/ \E i \in DOMAIN sent :
        sent[i].to = c /\ sent[i].type \in {"auth_success", "auth_failed"}

\* C35: whenever the app of an open, registered connection has its isPublisher flag set
\* and no authenticate request or reply of that connection is on its way, the registry
\* record of the connection has the publisher role.
C35_RolesAgree ==
  \A c \in Conns :
    (apps[c].isPublisher /\ SocketOpen(c) /\ c \in DOMAIN connections /\ ~AuthInFlight(c))
      => connections[c].isPublisher

C37_AuthSuccessMeansRole ==
  \A i \in DOMAIN sent :
    sent[i].type = "auth_success"
      => /\ IsPublisherConnection(connections, sent[i].to)
         /\ publisher = sent[i].to

\* auth_success for a connection while the record of another one is gone after an error
C37_Witness ==
  /\ lastEvent.kind = "auth"
  /\ \E i \in DOMAIN sent : sent[i].type = "auth_success" /\ sent[i].to = lastEvent.from
  /\ \E c \in Conns \ {lastEvent.from} :
        readyState[c] = "CLOSING" /\ c \notin DOMAIN connections

\* ---- C38
\* C38: a null session identifier comes with an empty accumulated text; after every
\* accepted fragment the identifier is non-null and the idle timer is pending with 3000 ms
\* to run; and a session is active exactly while the idle timer is pending, which is while
\* the last accepted fragment lies less than 3000 ms in the past, or exactly 3000 ms with
\* the timer's callback the next thing to run.
C38_SessionActiveWhileFresh ==
  /\ [](currentSessionId = NoSession => currentSessionText = <<>>)
  /\ [][AcceptedStep
          => currentSessionId' # NoSession /\ sessionTimeout' = SESSION_TIMEOUT_MS]_vars
  /\ []((currentSessionId # NoSession) <=> (sessionTimeout # NoTimer))
  /\ [](sessionTimeout # NoTimer => sinceFragment = SESSION_TIMEOUT_MS - sessionTimeout)
  /\ [](sessionTimeout = NoTimer => sinceFragment = SESSION_TIMEOUT_MS)

\* two fragments were accepted into session 1, and 3000 ms after the second one the idle
\* timer has ended the session
C38_Witness ==
  /\ lastEvent.kind = "session-timer"
  /\ lastAccepted.frag = 2
  /\ cleared = {1}
  /\ currentSessionId = NoSession
  /\ sinceFragment = SESSION_TIMEOUT_MS

\* ---- C39
\* C39: the translation history of an app holds final events only, newest first, never
\* more than 50: it is the 50 most recently received final events, or all of them when
\* fewer were received.
C39_HistoryIsLatestFinals ==
  \A c \in Conns :
    LET list == apps[c].translations
        finals == apps[c].finalsReceived
    IN /\ \A i \in DOMAIN list : list[i].isFinal
       /\ \A i, j \in DOMAIN list : i < j => list[i].id > list[j].id
       /\ Len(list) <= HISTORY_LIMIT
       /\ list = SubSeq(finals, 1, Min(Len(finals), HISTORY_LIMIT))

\* 51 final events and an interim one were received: the oldest final event is gone
C39_Witness ==
  /\ apps[1].received = 52
  /\ Len(apps[1].finalsReceived) = 51
  /\ Len(apps[1].translations) = HISTORY_LIMIT
  /\ apps[1].translations[HISTORY_LIMIT] # apps[1].finalsReceived[51]
====
